---------------------------- MODULE Spec2Model ----------------------------
(***************************************************************************)
(* Model of the native frame-processing core of the edge detection viewer: *)
(*   src/app/src/main/cpp/native-lib.cpp        (JNI gateway)               *)
(*   src/app/src/main/cpp/opencv_processing.cpp (processFrameWithCanny)     *)
(*                                                                         *)
(* A frame is a flat sequence of bytes (RGBA, row-major).  A cv::Mat is a   *)
(* record [rows, cols, channels, data].  Every JNI call is a sequence of    *)
(* atomic steps of one thread; lastProcessingTime is the one shared global. *)
(***************************************************************************)
EXTENDS Integers, Sequences, FiniteSets, TLC

(***************************************************************************)
(* Bounds of the model.                                                    *)
(***************************************************************************)
\* largest positive width/height of the frames that are enumerated
MaxDim == 4
\* the millisecond clock stops advancing at this value
MaxClock == 2

(***************************************************************************)
(* 32-bit integer arithmetic (jint, jsize).                                *)
(***************************************************************************)
\* the k-th byte (k = 0..3) of the two's complement representation of x
ByteOf(x, k) ==
    IF k = 0 THEN x % 256
    ELSE IF k = 1 THEN (x \div 256) % 256
    ELSE IF k = 2 THEN (x \div 65536) % 256
    ELSE (x \div 16777216) % 256

\* a * b in 32-bit two's complement (the product wraps modulo 2^32); the
\* schoolbook product over bytes keeps every intermediate value small
Mul32(a, b) ==
    LET c0 == ByteOf(a, 0) * ByteOf(b, 0)
        c1 == ByteOf(a, 0) * ByteOf(b, 1) + ByteOf(a, 1) * ByteOf(b, 0)
        c2 == ByteOf(a, 0) * ByteOf(b, 2) + ByteOf(a, 1) * ByteOf(b, 1)
              + ByteOf(a, 2) * ByteOf(b, 0)
        c3 == ByteOf(a, 0) * ByteOf(b, 3) + ByteOf(a, 1) * ByteOf(b, 2)
              + ByteOf(a, 2) * ByteOf(b, 1) + ByteOf(a, 3) * ByteOf(b, 0)
        t1 == c1 + (c0 \div 256)
        t2 == c2 + (t1 \div 256)
        t3 == c3 + (t2 \div 256)
        d3 == t3 % 256
    IN  (c0 % 256) + (t1 % 256) * 256 + (t2 % 256) * 65536
        + (IF d3 >= 128 THEN d3 - 256 ELSE d3) * 16777216

\* width * height * 4 as the gateway computes it with jint operands
\* (variant: the factor 4 forgotten)
FrameLength_NoChannels(w, h) == Mul32(w, h)
FrameLength(w, h) == Mul32(Mul32(w, h), 4)

(***************************************************************************)
(* cv::Mat and the OpenCV calls the gateway makes.                         *)
(***************************************************************************)
NoMat == [rows |-> 0, cols |-> 0, channels |-> 0, data |-> << >>]

\* cv::Mat(rows, cols, CV_8UC4, data): a header over borrowed bytes, no copy,
\* no check of the sign of rows and cols
MatOver(rows, cols, bytes) ==
    [rows |-> rows, cols |-> cols, channels |-> 4, data |-> bytes]

\* cv::Mat::empty(): no element (rows * cols = 0) or no data pointer
MatEmpty(m) == m.rows = 0 \/ m.cols = 0 \/ m.channels = 0

\* a non-empty header with a negative dimension: every cv call that has to
\* create a destination of that size raises cv::Exception
MatNegative(m) == ~MatEmpty(m) /\ (m.rows < 0 \/ m.cols < 0)

\* the header describes more bytes than the borrowed array holds (the
\* declared product wrapped to the array's length)
MatOverrun(m) ==
    /\ ~MatEmpty(m)
    /\ ~MatNegative(m)
    /\ \/ m.rows > Len(m.data)
       \/ m.cols > Len(m.data)
       \/ m.rows * m.cols > Len(m.data) \div m.channels

\* cv::Mat::copyTo: an empty source releases the destination, otherwise the
\* destination gets its own copy of every byte, in order
\* (variant: a copy that exchanges the R and B channels)
copyTo_Swapped(m) ==
    IF MatEmpty(m) THEN NoMat
    ELSE [m EXCEPT !.data = [i \in 1..Len(m.data) |->
             m.data[IF i % 4 = 1 THEN i + 2 ELSE IF i % 4 = 3 THEN i - 2 ELSE i]]]
copyTo(m) ==
    IF MatEmpty(m) THEN NoMat ELSE m

\* pixel (r, c), 0-based, of a single-channel image
At(m, r, c) == m.data[r * m.cols + c + 1]

\* luma weights (R, G, B) of cv::COLOR_RGBA2GRAY for 8-bit images, in 15-bit
\* fixed point: 0.299, 0.587 and 0.114 times 32768
LumaWeights == << 9798, 19235, 3735 >>

\* cv::cvtColor(src, dst, COLOR_RGBA2GRAY): alpha dropped, rounded weighted sum
RGBA2GRAY(m) ==
    [rows |-> m.rows, cols |-> m.cols, channels |-> 1,
     data |-> [i \in 1..(m.rows * m.cols) |->
        (m.data[4 * i - 3] * LumaWeights[1] + m.data[4 * i - 2] * LumaWeights[2]
         + m.data[4 * i - 1] * LumaWeights[3] + 16384) \div 32768]]

\* cv::borderInterpolate(p, len, BORDER_REFLECT_101)
Reflect101(p, len) ==
    IF len = 1 THEN 0
    ELSE LET period == 2 * (len - 1)
             q == p % period
         IN  IF q < len THEN q ELSE period - q

\* cv::borderInterpolate(p, len, BORDER_REPLICATE)
Replicate(p, len) == IF p < 0 THEN 0 ELSE IF p >= len THEN len - 1 ELSE p

\* the 5-tap Gaussian kernel for sigma 1.5 in 8-bit fixed point (sum 256)
GaussKernel == << 31, 60, 74, 60, 31 >>

\* cv::GaussianBlur(src, dst, Size(5, 5), 1.5): separable, reflect-101 border,
\* a horizontal pass in 8.8 fixed point and a vertical pass rounded to 8 bits
GaussianBlur(m) ==
    LET H == [i \in 1..(m.rows * m.cols) |->
                LET r == (i - 1) \div m.cols
                    c == (i - 1) % m.cols
                IN  GaussKernel[1] * At(m, r, Reflect101(c - 2, m.cols))
                  + GaussKernel[2] * At(m, r, Reflect101(c - 1, m.cols))
                  + GaussKernel[3] * At(m, r, c)
                  + GaussKernel[4] * At(m, r, Reflect101(c + 1, m.cols))
                  + GaussKernel[5] * At(m, r, Reflect101(c + 2, m.cols))]
        HAt(r, c) == H[r * m.cols + c + 1]
    IN  [rows |-> m.rows, cols |-> m.cols, channels |-> 1,
         data |-> [i \in 1..(m.rows * m.cols) |->
                LET r == (i - 1) \div m.cols
                    c == (i - 1) % m.cols
                IN  (GaussKernel[1] * HAt(Reflect101(r - 2, m.rows), c)
                   + GaussKernel[2] * HAt(Reflect101(r - 1, m.rows), c)
                   + GaussKernel[3] * HAt(r, c)
                   + GaussKernel[4] * HAt(Reflect101(r + 1, m.rows), c)
                   + GaussKernel[5] * HAt(Reflect101(r + 2, m.rows), c)
                   + 32768) \div 65536]]

\* thresholds of the cv::Canny call
LowThreshold == 50
HighThreshold == 150

Abs(x) == IF x < 0 THEN 0 - x ELSE x

\* cv::Canny(src, dst, 50, 150): 3x3 Sobel derivatives (replicated border),
\* L1 gradient magnitude, non-maximum suppression along the quantised
\* gradient direction, hysteresis over the 8-neighbourhood; an edge pixel is
\* 255 and every other pixel is 0
\* (variant: the gradient magnitude written instead of 255)
CannyValue_Magnitude(strong, mag) == IF strong THEN mag % 256 ELSE 0
CannyValue(strong, mag) == IF strong THEN 255 ELSE 0

RECURSIVE Hysteresis(_, _, _)
\* grow the set of edge pixels from the strong ones through the candidates
Hysteresis(edges, candidates, cols) ==
    LET Near(p, q) == /\ Abs(((p - 1) \div cols) - ((q - 1) \div cols)) <= 1
                      /\ Abs(((p - 1) % cols) - ((q - 1) % cols)) <= 1
        more == {p \in candidates \ edges : \E q \in edges : Near(p, q)}
    IN  IF more = {} THEN edges ELSE Hysteresis(edges \cup more, candidates, cols)

Canny(m) ==
    LET n == m.rows * m.cols
        P(r, c) == At(m, Replicate(r, m.rows), Replicate(c, m.cols))
        Dx == [i \in 1..n |->
                LET r == (i - 1) \div m.cols
                    c == (i - 1) % m.cols
                IN  (P(r - 1, c + 1) + 2 * P(r, c + 1) + P(r + 1, c + 1))
                  - (P(r - 1, c - 1) + 2 * P(r, c - 1) + P(r + 1, c - 1))]
        Dy == [i \in 1..n |->
                LET r == (i - 1) \div m.cols
                    c == (i - 1) % m.cols
                IN  (P(r + 1, c - 1) + 2 * P(r + 1, c) + P(r + 1, c + 1))
                  - (P(r - 1, c - 1) + 2 * P(r - 1, c) + P(r - 1, c + 1))]
        Mag == [i \in 1..n |-> Abs(Dx[i]) + Abs(Dy[i])]
        \* the magnitude buffer is padded with zeros around the image
        M(r, c) == IF r < 0 \/ r >= m.rows \/ c < 0 \/ c >= m.cols
                   THEN 0 ELSE Mag[r * m.cols + c + 1]
        \* tan(22.5 degrees) in 15-bit fixed point
        LocalMax(i) ==
            LET r == (i - 1) \div m.cols
                c == (i - 1) % m.cols
                x == Abs(Dx[i])
                y == Abs(Dy[i]) * 32768
                tg22x == x * 13573
                tg67x == tg22x + x * 65536
                s == IF (Dx[i] < 0) # (Dy[i] < 0) THEN -1 ELSE 1
            IN  IF y < tg22x
                THEN Mag[i] > M(r, c - 1) /\ Mag[i] >= M(r, c + 1)
                ELSE IF y > tg67x
                THEN Mag[i] > M(r - 1, c) /\ Mag[i] >= M(r + 1, c)
                ELSE Mag[i] > M(r - 1, c - s) /\ Mag[i] > M(r + 1, c + s)
        candidates == {i \in 1..n : Mag[i] > LowThreshold /\ LocalMax(i)}
        strong == {i \in candidates : Mag[i] > HighThreshold}
        edges == Hysteresis(strong, candidates, m.cols)
    IN  [rows |-> m.rows, cols |-> m.cols, channels |-> 1,
         data |-> [i \in 1..n |-> CannyValue(i \in edges, Mag[i])]]

\* cv::cvtColor(src, dst, COLOR_GRAY2RGBA): the value replicated into R, G and
\* B, alpha set to the maximum
GRAY2RGBA(m) ==
    [rows |-> m.rows, cols |-> m.cols, channels |-> 4,
     data |-> [i \in 1..(4 * m.rows * m.cols) |->
                 IF i % 4 = 0 THEN 255 ELSE m.data[(i + 3) \div 4]]]

\* the recipe of the gateway, steps 5.1 to 5.4
EdgeRecipe(m) == GRAY2RGBA(Canny(GaussianBlur(RGBA2GRAY(m))))

\* whether the cv calls of the selected mode raise cv::Exception on m:
\* cvtColor asserts a non-empty source, a destination of negative size cannot
\* be created, and any destination may fail to be allocated
Throws(m, apply, allocFails) ==
    IF apply
    THEN MatEmpty(m) \/ MatNegative(m) \/ allocFails
    ELSE ~MatEmpty(m) /\ (MatNegative(m) \/ allocFails)

\* processFrameWithCanny(inputMat, outputMat) of opencv_processing.cpp: the
\* same recipe through BGR (RGBA2BGR and BGR2GRAY weigh the channels as
\* RGBA2GRAY does, GRAY2BGR and BGR2RGBA replicate the value and set alpha to
\* the maximum), inside try.  The handler of cv::Exception copies the input to
\* the output with inputMat.copyTo(outputMat), a call no handler surrounds:
\* when it raises too (a negative size, or its allocation fails) the exception
\* leaves the function and outputMat is left empty.  recipeFails and copyFails
\* say whether an allocation fails in the recipe and in the handler's copy.
\* The result is whether an exception left the function, and outputMat.
\* No code of the gateway calls this function.
processFrameWithCanny(inputMat, recipeFails, copyFails) ==
    IF ~Throws(inputMat, TRUE, recipeFails)
    THEN [raised |-> FALSE, outputMat |-> EdgeRecipe(inputMat)]
    ELSE IF Throws(inputMat, FALSE, copyFails)
    THEN [raised |-> TRUE, outputMat |-> NoMat]
    ELSE [raised |-> FALSE, outputMat |-> copyTo(inputMat)]

(***************************************************************************)
(* The frames and arguments the callers pass.                              *)
(***************************************************************************)
Threads == {1, 2}
\* the one worker thread of the camera pipeline, the supported mode
Callers == {1}

\* the positive widths and heights that are enumerated
Dims == {1, 2, MaxDim}

Colours == { << 255, 0, 0, 255 >>, << 0, 0, 0, 0 >>, << 255, 255, 255, 255 >> }
\* n pixels of one colour
Uniform(n, px) == [i \in 1..(4 * n) |-> px[((i - 1) % 4) + 1]]
\* w by h pixels, the left half black, the right half white, all opaque
VStep(w, h) ==
    [i \in 1..(4 * w * h) |->
        IF i % 4 = 0 THEN 255
        ELSE IF (((i - 1) \div 4) % w) < (w \div 2) THEN 0 ELSE 255]
\* n bytes, all different for n <= 256
Ramp(n) == [i \in 1..n |-> (i * 37) % 256]

Frames ==
    {Uniform(w * h, px) : w \in Dims, h \in Dims, px \in Colours}
    \cup {VStep(w, h) : w \in Dims \ {1}, h \in Dims}
    \cup {Ramp(n) : n \in {0, 3, 4, 16}}

\* widths and heights: the positive ones, zero, a negative one, and a pair
\* whose product times 4 is 2^32
Widths == {-1, 0, 65536} \cup Dims
Heights == {-1, 0, 16384} \cup Dims

\* the calls of the interleaved specification
SmallFrames == {Ramp(0), Ramp(4), Ramp(8)}
SmallWidths == {0, 1, 2}
SmallHeights == {1}

(***************************************************************************)
(* State.                                                                  *)
(***************************************************************************)
VARIABLES
    lastProcessingTime, \* static long lastProcessingTime
    now,                \* high_resolution_clock, in whole milliseconds
    aborted,            \* the process died (uncaught exception, memory fault)
    pc,                 \* pc[t]: where thread t is in processFrameBytes
    call,               \* call[t]: imageData, width, height, applyEdgeDetection
    local,              \* local[t]: the locals of processFrameBytes
    jni,                \* jni[t]: what the call asked of the JNIEnv
    result,             \* result[t]: what the last call of t returned
    history,            \* what an observer of the calls recorded
    queried             \* the value getProcessingTime returned last

vars == << lastProcessingTime, now, aborted, pc, call, local, jni, result,
           history, queried >>

NoCall == [imageData |-> << >>, width |-> 0, height |-> 0,
           applyEdgeDetection |-> FALSE]
NoLocal == [startTime |-> 0, inputBytes |-> << >>, inputMat |-> NoMat,
            outputMat |-> NoMat, outputSize |-> 0, outputArray |-> << >>,
            duration |-> 0, threw |-> FALSE]
NoJni == [acquired |-> 0, released |-> 0, allocated |-> 0]
\* kind: "none" (no call yet), "null" (nullptr returned), "array"
NoResult == [kind |-> "none", bytes |-> << >>]
Null == [kind |-> "null", bytes |-> << >>]
Array(b) == [kind |-> "array", bytes |-> b]

Init ==
    /\ lastProcessingTime = 0
    /\ now = 0
    /\ aborted = FALSE
    /\ pc = [t \in Threads |-> "idle"]
    /\ call = [t \in Threads |-> NoCall]
    /\ local = [t \in Threads |-> NoLocal]
    /\ jni = [t \in Threads |-> NoJni]
    /\ result = [t \in Threads |-> NoResult]
    /\ history = [before |-> [t \in Threads |-> 0],
                  given |-> [t \in Threads |-> << >>],
                  elapsed |-> [t \in Threads |-> 0],
                  writer |-> 0]
    /\ queried = 0

(***************************************************************************)
(* JNI helpers.                                                            *)
(***************************************************************************)
JNI_ABORT == 2

\* ReleaseByteArrayElements(array, elems, mode): the contents of the Java
\* array afterwards; JNI_ABORT frees the elements without copying them back
ReleaseByteArrayElements(array, elems, mode) ==
    IF mode = JNI_ABORT THEN array ELSE elems

\* SetByteArrayRegion(array, 0, len, buf): the first len bytes of buf
SetByteArrayRegion(array, len, buf) ==
    [i \in 1..Len(array) |-> IF i <= len THEN buf[i] ELSE array[i]]

\* NewByteArray(n): a fresh zero-filled array
NewByteArray(n) == [i \in 1..n |-> 0]

\* duration_cast<milliseconds>(endTime - startTime).count()
\* (variant: the start time not subtracted)
DurationMs_EndOnly(startTime, endTime) == endTime
DurationMs(startTime, endTime) == endTime - startTime

\* lastProcessingTime = duration.count(): an unsynchronised store.  A long is
\* one aligned machine word on every Android ABI, so of two racing stores the
\* later one stays; which one is later is not determined.
\* (variant: the larger value kept)
StoredValue_Max(old, duration) == IF old > duration THEN old ELSE duration
StoredValue(old, duration) == duration

\* return nullptr
ReturnNull(t) ==
    /\ pc' = [pc EXCEPT ![t] = "done"]
    /\ result' = [result EXCEPT ![t] = Null]

(***************************************************************************)
(* processFrameBytes, one action per step.                                 *)
(***************************************************************************)
\* lines 47-56: start the clock, STEP 1 validate the array length
Begin(t, data, w, h, apply) ==
    /\ ~aborted
    /\ pc[t] = "idle"
    /\ call' = [call EXCEPT ![t] = [imageData |-> data, width |-> w,
                    height |-> h, applyEdgeDetection |-> apply]]
    /\ local' = [local EXCEPT ![t] = [NoLocal EXCEPT !.startTime = now]]
    /\ jni' = [jni EXCEPT ![t] = NoJni]
    /\ history' = [history EXCEPT !.before[t] = lastProcessingTime,
                                  !.given[t] = data]
    /\ IF Len(data) # FrameLength(w, h)
       THEN ReturnNull(t)
       ELSE /\ pc' = [pc EXCEPT ![t] = "acquire"]
            /\ result' = [result EXCEPT ![t] = NoResult]
    /\ UNCHANGED << lastProcessingTime, now, aborted, queried >>

\* lines 58-63: STEP 2 GetByteArrayElements, which may return nullptr
Acquire(t, ok) ==
    /\ ~aborted
    /\ pc[t] = "acquire"
    /\ IF ok
       THEN /\ local' = [local EXCEPT ![t].inputBytes = call[t].imageData]
            /\ jni' = [jni EXCEPT ![t].acquired = @ + 1]
            /\ pc' = [pc EXCEPT ![t] = "wrap"]
            /\ UNCHANGED result
       ELSE /\ ReturnNull(t)
            /\ UNCHANGED << local, jni >>
    /\ UNCHANGED << lastProcessingTime, now, aborted, call, history, queried >>

\* lines 65-73: STEP 3 the Mat header over the bytes, STEP 4 its validation
Wrap(t) ==
    /\ ~aborted
    /\ pc[t] = "wrap"
    /\ LET inputMat == MatOver(call[t].height, call[t].width, local[t].inputBytes)
       IN  /\ local' = [local EXCEPT ![t].inputMat = inputMat]
           /\ IF \/ inputMat.rows # call[t].height
                 \/ inputMat.cols # call[t].width
                 \/ inputMat.channels # 4
              THEN /\ ReturnNull(t)
                   /\ jni' = [jni EXCEPT ![t].released = @ + 1]
                   /\ call' = [call EXCEPT ![t].imageData =
                         ReleaseByteArrayElements(@, local[t].inputBytes, JNI_ABORT)]
              ELSE /\ pc' = [pc EXCEPT ![t] = "transform"]
                   /\ UNCHANGED << result, jni, call >>
    /\ UNCHANGED << lastProcessingTime, now, aborted, history, queried >>

\* lines 75-102: STEP 5 the recipe or the passthrough copy.  No handler
\* surrounds the cv calls: a cv::Exception leaves the native method and the
\* process dies.  Reading past the borrowed bytes faults or yields bytes that
\* belong to nobody (none of them is within outputSize).
Transform(t, outcome) ==
    /\ ~aborted
    /\ pc[t] = "transform"
    /\ LET m == local[t].inputMat
           apply == call[t].applyEdgeDetection
       IN  IF Throws(m, apply, outcome = "throw")
           THEN /\ local' = [local EXCEPT ![t].threw = TRUE]
                /\ aborted' = TRUE
                /\ UNCHANGED pc
           ELSE IF MatOverrun(m)
           THEN IF outcome = "fault"
                THEN /\ aborted' = TRUE
                     /\ UNCHANGED << pc, local >>
                ELSE /\ local' = [local EXCEPT ![t].outputMat = [m EXCEPT !.data = << >>]]
                     /\ pc' = [pc EXCEPT ![t] = "alloc"]
                     /\ UNCHANGED aborted
           ELSE /\ local' = [local EXCEPT ![t].outputMat =
                                IF apply THEN EdgeRecipe(m) ELSE copyTo(m)]
                /\ pc' = [pc EXCEPT ![t] = "alloc"]
                /\ UNCHANGED aborted
    /\ UNCHANGED << lastProcessingTime, now, call, jni, result, history, queried >>

\* height * width * 4 as the gateway computes it for the output
\* (variant: three channels instead of four)
OutputSize_ThreeChannels(w, h) == Mul32(Mul32(h, w), 3)
OutputSize(w, h) == Mul32(Mul32(h, w), 4)

\* lines 104-111: STEP 6 NewByteArray, which may return nullptr; on nullptr
\* the input elements are released before the return
\* (variant: the release on the nullptr path forgotten)
AllocOutput_NoRelease(t, ok) ==
    /\ ~aborted
    /\ pc[t] = "alloc"
    /\ LET outputSize == OutputSize(call[t].width, call[t].height)
       IN  IF ok
           THEN /\ local' = [local EXCEPT ![t].outputSize = outputSize,
                                          ![t].outputArray = NewByteArray(outputSize)]
                /\ jni' = [jni EXCEPT ![t].allocated = @ + 1]
                /\ pc' = [pc EXCEPT ![t] = "copy"]
                /\ UNCHANGED << result, call >>
           ELSE /\ local' = [local EXCEPT ![t].outputSize = outputSize]
                /\ jni' = [jni EXCEPT ![t].allocated = @ + 1]
                /\ ReturnNull(t)
                /\ UNCHANGED call
    /\ UNCHANGED << lastProcessingTime, now, aborted, history, queried >>
AllocOutput(t, ok) ==
    /\ ~aborted
    /\ pc[t] = "alloc"
    /\ LET outputSize == OutputSize(call[t].width, call[t].height)
       IN  IF ok
           THEN /\ local' = [local EXCEPT ![t].outputSize = outputSize,
                                          ![t].outputArray = NewByteArray(outputSize)]
                /\ jni' = [jni EXCEPT ![t].allocated = @ + 1]
                /\ pc' = [pc EXCEPT ![t] = "copy"]
                /\ UNCHANGED << result, call >>
           ELSE /\ local' = [local EXCEPT ![t].outputSize = outputSize]
                /\ jni' = [jni EXCEPT ![t].allocated = @ + 1,
                                      ![t].released = @ + 1]
                /\ call' = [call EXCEPT ![t].imageData =
                      ReleaseByteArrayElements(@, local[t].inputBytes, JNI_ABORT)]
                /\ ReturnNull(t)
    /\ UNCHANGED << lastProcessingTime, now, aborted, history, queried >>

\* lines 113-118: copy outputSize bytes of outputMat.data into the array and
\* release the input elements.  Bytes past the end of outputMat.data belong to
\* nobody: reading them faults or yields some byte.
CopyOut(t, junk) ==
    /\ ~aborted
    /\ pc[t] = "copy"
    /\ LET have == Len(local[t].outputMat.data)
           buf == [i \in 1..local[t].outputSize |->
                     IF i <= have THEN local[t].outputMat.data[i] ELSE junk]
       IN  IF local[t].outputSize > have /\ junk < 0
           THEN /\ aborted' = TRUE
                /\ UNCHANGED << local, jni, call, pc >>
           ELSE /\ local' = [local EXCEPT ![t].outputArray =
                       SetByteArrayRegion(@, local[t].outputSize, buf)]
                /\ jni' = [jni EXCEPT ![t].released = @ + 1]
                /\ call' = [call EXCEPT ![t].imageData =
                      ReleaseByteArrayElements(@, local[t].inputBytes, JNI_ABORT)]
                /\ pc' = [pc EXCEPT ![t] = "time"]
                /\ UNCHANGED aborted
    /\ UNCHANGED << lastProcessingTime, now, result, history, queried >>

\* lines 120-122: read the clock, compute the duration
EndTiming(t) ==
    /\ ~aborted
    /\ pc[t] = "time"
    /\ local' = [local EXCEPT ![t].duration = DurationMs(local[t].startTime, now)]
    /\ history' = [history EXCEPT !.elapsed[t] = now - local[t].startTime]
    /\ pc' = [pc EXCEPT ![t] = "store"]
    /\ UNCHANGED << lastProcessingTime, now, aborted, call, jni, result, queried >>

\* lines 123-127: store the duration in the global, return the array
StoreTime(t) ==
    /\ ~aborted
    /\ pc[t] = "store"
    /\ lastProcessingTime' = StoredValue(lastProcessingTime, local[t].duration)
    /\ history' = [history EXCEPT !.writer = t]
    /\ result' = [result EXCEPT ![t] = Array(local[t].outputArray)]
    /\ pc' = [pc EXCEPT ![t] = "done"]
    /\ UNCHANGED << now, aborted, call, local, jni, queried >>

\* lines 38-45: between two invocations nothing of the earlier one is left but
\* lastProcessingTime; the caller has taken the returned reference
Collect(t) ==
    /\ ~aborted
    /\ pc[t] = "done"
    /\ pc' = [pc EXCEPT ![t] = "idle"]
    /\ call' = [call EXCEPT ![t] = NoCall]
    /\ local' = [local EXCEPT ![t] = NoLocal]
    /\ jni' = [jni EXCEPT ![t] = NoJni]
    /\ result' = [result EXCEPT ![t] = NoResult]
    /\ history' = [history EXCEPT !.before[t] = 0, !.given[t] = << >>]
    /\ UNCHANGED << lastProcessingTime, now, aborted, queried >>

\* lines 30-35: getProcessingTime
getProcessingTime ==
    /\ ~aborted
    /\ queried' = lastProcessingTime
    /\ queried' # queried
    /\ UNCHANGED << lastProcessingTime, now, aborted, pc, call, local, jni,
                    result, history >>

\* a millisecond passes
Tick ==
    /\ ~aborted
    /\ now < MaxClock
    /\ now' = now + 1
    /\ UNCHANGED << lastProcessingTime, aborted, pc, call, local, jni, result,
                    history, queried >>

Step(t) ==
    \/ \E ok \in BOOLEAN : Acquire(t, ok)
    \/ Wrap(t)
    \/ \E outcome \in {"ok", "throw", "fault"} : Transform(t, outcome)
    \/ \E ok \in BOOLEAN : AllocOutput(t, ok)
    \/ \E junk \in {-1, 0, 255} : CopyOut(t, junk)
    \/ EndTiming(t)
    \/ StoreTime(t)

\* one caller at a time, the supported mode
Next ==
    \/ \E t \in Callers, data \in Frames, w \in Widths, h \in Heights,
          apply \in BOOLEAN : Begin(t, data, w, h, apply)
    \/ \E t \in Callers : Step(t)
    \/ \E t \in Callers : Collect(t)
    \/ getProcessingTime
    \/ Tick

Spec == Init /\ [][Next]_vars

\* two threads, one call each, interleaved step by step
NextConc ==
    \/ \E t \in Threads, data \in SmallFrames, w \in SmallWidths,
          h \in SmallHeights, apply \in BOOLEAN : Begin(t, data, w, h, apply)
    \/ \E t \in Threads : Step(t)
    \/ getProcessingTime
    \/ Tick

SpecConc == Init /\ [][NextConc]_vars

(***************************************************************************)
(* What the properties speak of.                                           *)
(***************************************************************************)
Returned(t) == pc[t] = "done"
ReturnedArray(t) == Returned(t) /\ result[t].kind = "array"
ReturnedNull(t) == Returned(t) /\ result[t].kind = "null"
Quiescent == \A t \in Threads : pc[t] \in {"idle", "done"}

\* the array holds exactly width * height * 4 bytes, as mathematical integers
ExactLength(c) ==
    /\ Len(c.imageData) % 4 = 0
    /\ c.width * c.height = Len(c.imageData) \div 4
PositiveDims(c) == c.width > 0 /\ c.height > 0
Valid(c) == PositiveDims(c) /\ ExactLength(c)

\* the call was refused by the JNIEnv: no elements, or no output array
JniRefused(t) ==
    ReturnedNull(t) /\ (jni[t].acquired = 0 \/ jni[t].allocated = 1)

\* the elapsed time of the call that stored its duration last, 0 before any
LastElapsed == IF history.writer = 0 THEN 0 ELSE history.elapsed[history.writer]

\* the edge map of a frame, and the frame a lone call returns
EdgeMapOf(c) ==
    Canny(GaussianBlur(RGBA2GRAY(MatOver(c.height, c.width, c.imageData))))
AloneOutput(c) ==
    IF c.applyEdgeDetection
    THEN EdgeRecipe(MatOver(c.height, c.width, c.imageData)).data
    ELSE copyTo(MatOver(c.height, c.width, c.imageData)).data

IsUniform(bytes) == \A i \in 1..Len(bytes) : bytes[i] = bytes[((i - 1) % 4) + 1]

(***************************************************************************)
(* C1.  Passthrough is an exact copy: a call with positive dimensions, an   *)
(* array of width*height*4 bytes and applyEdgeDetection = FALSE that        *)
(* returns an array returns the bytes it was given, same length, same      *)
(* order; it returns nullptr only when the JNIEnv refused it.              *)
(***************************************************************************)
C1_PassthroughExactCopy ==
    \A t \in Threads :
        (Returned(t) /\ Valid(call[t]) /\ ~call[t].applyEdgeDetection) =>
            \/ /\ result[t].kind = "array"
               /\ Len(result[t].bytes) = Len(history.given[t])
               /\ \A i \in 1..Len(history.given[t]) :
                      result[t].bytes[i] = history.given[t][i]
            \/ JniRefused(t)

C1_Witness ==
    \E t \in Threads :
        /\ ReturnedArray(t)
        /\ ~call[t].applyEdgeDetection
        /\ call[t].width = 2 /\ call[t].height = 2
        /\ history.given[t] = Ramp(16)
        /\ result[t].bytes = Ramp(16)

(***************************************************************************)
(* C2.  A call with positive dimensions (product within 32 bits) and an     *)
(* array of any other length returns nullptr before it acquires the bytes  *)
(* or allocates an output, and lastProcessingTime is what it was before.   *)
(***************************************************************************)
C2_MismatchRejected ==
    \A t \in Threads :
        (/\ Returned(t)
         /\ PositiveDims(call[t])
         /\ call[t].width * call[t].height < 536870912
         /\ ~ExactLength(call[t])) =>
            /\ result[t].kind = "null"
            /\ jni[t].acquired = 0
            /\ jni[t].allocated = 0
            /\ lastProcessingTime = history.before[t]

C2_Witness ==
    \E t \in Threads :
        /\ ReturnedNull(t)
        /\ call[t].width = 2 /\ call[t].height = 2
        /\ Len(call[t].imageData) = 4
        /\ jni[t].acquired = 0
        /\ history.before[t] > 0
        /\ lastProcessingTime = history.before[t]

(***************************************************************************)
(* C3.  A failure inside the recipe is not surfaced: when a cv call of an   *)
(* edge-detection call on a length-valid array fails, the process goes on  *)
(* and the call returns a copy of the input, with the input elements       *)
(* released and lastProcessingTime updated.                                *)
(***************************************************************************)
C3_FailureDegradesToPassthrough ==
    \A t \in Threads :
        (local[t].threw /\ call[t].applyEdgeDetection) =>
            /\ ~aborted
            /\ Returned(t) =>
                  /\ result[t] = Array(history.given[t])
                  /\ jni[t].released = 1
                  /\ lastProcessingTime = history.elapsed[t]

(***************************************************************************)
(* C4.  lastProcessingTime is 0 before any frame, never negative, and when  *)
(* no call is running it is the elapsed time of the latest call that       *)
(* returned an array; a call that returned nullptr left it as it was; the  *)
(* query returns it and does not change it.                                *)
(***************************************************************************)
C4_State ==
    /\ lastProcessingTime >= 0
    /\ Quiescent => lastProcessingTime = LastElapsed
    /\ \A t \in Threads :
          ReturnedNull(t) => lastProcessingTime = history.before[t]

C4_MetricsTrackLastSuccess ==
    /\ lastProcessingTime = 0
    /\ [][/\ C4_State'
          /\ (queried' # queried) =>
                /\ queried' = lastProcessingTime
                /\ lastProcessingTime' = lastProcessingTime]_vars

C4_Witness ==
    /\ Quiescent
    /\ history.writer # 0
    /\ lastProcessingTime = 1
    /\ queried = 1
    /\ \E t \in Threads : ReturnedNull(t) /\ jni[t].allocated = 1

(***************************************************************************)
(* C5.  Edge-map shape: an edge-detection call with positive dimensions and *)
(* an array of width*height*4 bytes, whatever the bytes, that returns an   *)
(* array returns width*height*4 bytes, those of the recoloured edge image; *)
(* it returns nullptr only when the JNIEnv refused it.                     *)
(***************************************************************************)
C5_EdgeMapShape ==
    \A t \in Threads :
        (Returned(t) /\ Valid(call[t]) /\ call[t].applyEdgeDetection) =>
            \/ /\ result[t].kind = "array"
               /\ Len(result[t].bytes) = 4 * call[t].width * call[t].height
               /\ result[t].bytes = GRAY2RGBA(EdgeMapOf(call[t])).data
            \/ JniRefused(t)

C5_Witness ==
    \E t \in Threads :
        /\ ReturnedArray(t)
        /\ call[t].applyEdgeDetection
        /\ call[t].width = MaxDim /\ call[t].height = MaxDim
        /\ history.given[t] = Uniform(MaxDim * MaxDim, << 0, 0, 0, 0 >>)
        /\ Len(result[t].bytes) = 4 * MaxDim * MaxDim

(***************************************************************************)
(* C6.  Binary edge values: in the array an edge-detection call returns,    *)
(* every pixel has R = G = B, the value is 0 or 255 and is the edge map's  *)
(* value at that pixel; a uniform frame gives R = G = B = 0 everywhere;    *)
(* alpha is 255 everywhere.                                                *)
(***************************************************************************)
C6_BinaryEdgeValues ==
    \A t \in Threads :
        (ReturnedArray(t) /\ Valid(call[t]) /\ call[t].applyEdgeDetection) =>
            LET out == result[t].bytes
                edges == EdgeMapOf(call[t]).data
            IN  \A p \in 1..(call[t].width * call[t].height) :
                    /\ out[4 * p - 3] \in {0, 255}
                    /\ out[4 * p - 2] = out[4 * p - 3]
                    /\ out[4 * p - 1] = out[4 * p - 3]
                    /\ out[4 * p - 3] = edges[p]
                    /\ out[4 * p] = 255
                    /\ IsUniform(history.given[t]) => out[4 * p - 3] = 0

C6_Witness ==
    \E t \in Threads :
        /\ ReturnedArray(t)
        /\ call[t].applyEdgeDetection
        /\ call[t].width = MaxDim /\ call[t].height = MaxDim
        /\ history.given[t] = VStep(MaxDim, MaxDim)
        /\ \E p, q \in 1..(MaxDim * MaxDim) :
              /\ result[t].bytes[4 * p - 3] = 255
              /\ result[t].bytes[4 * q - 3] = 0

(***************************************************************************)
(* C7.  Only two kinds of failure reach the caller: nullptr is returned     *)
(* only for an array of the wrong length (or a view that does not match)   *)
(* or when the output array cannot be allocated; in every other case a     *)
(* length-valid call returns an array of width*height*4 bytes.             *)
(***************************************************************************)
C7_OnlyTwoFailureCategories ==
    \A t \in Threads :
        /\ ReturnedNull(t) =>
              \/ Len(history.given[t]) # FrameLength(call[t].width, call[t].height)
              \/ jni[t].allocated = 1
        /\ (pc[t] # "idle"
            /\ Len(history.given[t]) = FrameLength(call[t].width, call[t].height)) =>
              ~aborted

(***************************************************************************)
(* C8.  Acceptance implies valid dimensions: a call returns an array only   *)
(* if width > 0, height > 0 and the array holds exactly width*height*4     *)
(* bytes, the product not wrapped.                                         *)
(***************************************************************************)
C8_AcceptanceImpliesValidDims ==
    \A t \in Threads : ReturnedArray(t) => Valid(call[t])

(***************************************************************************)
(* C9.  The input is borrowed read-only: when a call has returned, the      *)
(* bytes of the input array are those it was given; the elements were      *)
(* released exactly once if they were acquired and not at all otherwise;   *)
(* at no time are they released more often than acquired.                  *)
(***************************************************************************)
C9_InputBorrowedReadOnly ==
    \A t \in Threads :
        /\ jni[t].released <= jni[t].acquired
        /\ jni[t].acquired <= 1
        /\ Returned(t) =>
              /\ call[t].imageData = history.given[t]
              /\ jni[t].released = jni[t].acquired

C9_Witness ==
    \E t \in Threads :
        /\ ReturnedNull(t)
        /\ jni[t].allocated = 1
        /\ jni[t].acquired = 1
        /\ jni[t].released = 1
        /\ Len(history.given[t]) = 16
        /\ call[t].imageData = history.given[t]

(***************************************************************************)
(* C10.  Two interleaved calls: each returns what it would have returned    *)
(* alone on its own input, and once both have returned lastProcessingTime  *)
(* is the elapsed time of the call that stored last (0 if neither stored). *)
(***************************************************************************)
C10_LastWriterWins ==
    /\ \A t \in Threads :
          ReturnedArray(t) => result[t].bytes = AloneOutput(call[t])
    /\ (\A t \in Threads : Returned(t)) => lastProcessingTime = LastElapsed

C10_Witness ==
    /\ \A t \in Threads : ReturnedArray(t)
    /\ call[1].imageData # call[2].imageData
    /\ history.writer = 1
    /\ history.elapsed[1] < history.elapsed[2]
    /\ lastProcessingTime = history.elapsed[1]

=============================================================================
